---- MODULE Spec2Model ----
(***************************************************************************)
(* Homomorphic Eigenfaces: the Computation Engine (EigenfacesServer) and   *)
(* the Key Holder (EigenfacesClient) of                                    *)
(* src/ciphertext/homomorphic_eigenfaces_module.py.                        *)
(*                                                                         *)
(* A numeric value is a record [e, v, l]: e says whether it is a           *)
(* CKKSVector (encrypted) or a plain number, v is its value and l the      *)
(* multiplications it can still undergo.  Real numbers are fixed-point     *)
(* integers with Scale units per 1.0; encryption is exact (decrypt of      *)
(* encrypt is the value itself).  Every server method takes the call       *)
(* context c (the exception raised so far, and what the oracles were       *)
(* asked) and returns [c, r]: the context after it and its result.  Once   *)
(* c.err is set the exception propagates: nothing after it has an effect.  *)
(***************************************************************************)
EXTENDS Integers, Sequences, FiniteSets, TLC

\* ------------------------------------------------------------ arithmetic

\* Fixed-point units per 1.0 (2^10).
Scale == 32 * 32

\* coeff_mod_bit_sizes=[60, 40, 40, 40, 60]: five moduli.
ModulusChainLength == 5

\* The depth a fresh ciphertext has: the chain length minus one.
Budget == ModulusChainLength - 1

Min(a, b) == IF a <= b THEN a ELSE b


\* a * b on reals, rounded to the nearest unit; split so that no
\* intermediate product leaves 32 bits.
FxMul(a, b) ==
    (a \div Scale) * b + ((a % Scale) * b + Scale \div 2) \div Scale

\* 1 / b on reals (b # 0), rounded to the nearest unit.
FxRecip(b) ==
    IF b > 0 THEN (Scale * Scale + b \div 2) \div b
    ELSE 0 - ((Scale * Scale + (0 - b) \div 2) \div (0 - b))

\* A plain number and a fresh ciphertext of value v.
Plain(v) == [e |-> FALSE, v |-> v, l |-> Budget]

Enc(v) == [e |-> TRUE, v |-> v, l |-> Budget]

\* The context of a call before anything happened; rmul is the number of
\* multiplications made when reencryption was last asked for.
NoCtx ==
    [err |-> "", reads |-> {}, dec |-> 0, decIn |-> {}, ctxIn |-> {},
     seed |-> 0, reenc |-> 0, rmul |-> 0, mul |-> 0, zmul |-> FALSE,
     minl |-> Budget]

Ok(c) == c.err = ""

Raise(c, e) == IF Ok(c) THEN [c EXCEPT !.err = e] ELSE c

\* The level of a product: one below the smaller level of its encrypted
\* operands.
MulLevel(a, b) ==
    LET m == IF a.e /\ b.e THEN Min(a.l, b.l)
             ELSE IF a.e THEN a.l ELSE IF b.e THEN b.l ELSE Budget + 1
    IN  IF m = 0 THEN 0 ELSE m - 1

\* a * b (CKKSVector.__mul__ / __rmul__, or float * float).
Mul(c, a, b) ==
    IF ~Ok(c) THEN [c |-> c, r |-> a]
    ELSE LET z == (a.e /\ a.l = 0) \/ (b.e /\ b.l = 0)
             lo == IF a.e /\ b.e THEN Min(a.l, b.l)
                   ELSE IF a.e THEN a.l ELSE IF b.e THEN b.l ELSE c.minl
         IN  [c |-> [c EXCEPT !.mul = @ + 1, !.zmul = @ \/ z,
                              !.minl = Min(@, lo)],
              r |-> [e |-> a.e \/ b.e, v |-> FxMul(a.v, b.v),
                     l |-> MulLevel(a, b)]]

\* a + b (CKKSVector.__add__ / __radd__, or float + float).
Add(a, b) ==
    [e |-> a.e \/ b.e, v |-> a.v + b.v,
     l |-> IF a.e /\ b.e THEN Min(a.l, b.l)
           ELSE IF a.e THEN a.l ELSE b.l]

RECURSIVE Flatten(_)
\* for row in mat: for element in row: temp.append(element)
Flatten(mat) == IF Len(mat) = 0 THEN <<>> ELSE Head(mat) \o Flatten(Tail(mat))

\* ------------------------------------------------- EigenfacesClient

\* The value a method returns for Python's None.
NoneVal == 0 - 1

\* The value x put in front of the list a loop's later rounds made (t):
\* result.append(x) of a loop that ran to its end.
Prepend(x, t) == [c |-> t.c, r |-> IF Ok(t.c) THEN <<x>> \o t.r ELSE <<>>]

\* EigenfacesClient._decrypt_vec, called inside the oracle `who`: every
\* entry's .decrypt(); a float has no such method.
DecryptVec(c, V, who) ==
    IF ~Ok(c) THEN [c |-> c, r |-> <<>>]
    ELSE IF \E i \in 1..Len(V) : ~V[i].e
    THEN [c |-> Raise(c, "AttributeError"), r |-> <<>>]
    ELSE [c |-> [c EXCEPT !.dec = @ + Len(V),
                          !.decIn = IF Len(V) > 0 THEN @ \cup {who} ELSE @],
          r |-> [i \in 1..Len(V) |-> Plain(V[i].v)]]

\* EigenfacesClient._encrypt_vec: a fresh ciphertext of every entry.
EncryptVec(V) == [i \in 1..Len(V) |-> Enc(V[i].v)]

\* Inside the oracle `who`, _encrypt_vec or ts.ckks_vector has made
\* ciphertexts of n values, each under self.context.
UsedContext(c, n, who) ==
    IF Ok(c) /\ n > 0 THEN [c EXCEPT !.ctxIn = @ \cup {who}] ELSE c

\* EigenfacesClient._reencrypt_vec (the server's reencrypt_vec).
ReencryptVec(c, V) ==
    IF ~Ok(c) THEN [c |-> c, r |-> <<>>]
    ELSE LET Encrypted(d) ==
                 [c |-> UsedContext(d.c, Len(d.r), "_reencrypt_vec"),
                  r |-> EncryptVec(d.r)]
         IN  Encrypted(DecryptVec([c EXCEPT !.reenc = @ + 1, !.rmul = c.mul],
                                  V, "_reencrypt_vec"))

RECURSIVE DecryptRows(_, _, _, _)
\* EigenfacesClient.Decrypt: _decrypt_vec of every row from row i on.
DecryptRows(c, M, i, who) ==
    IF ~Ok(c) \/ i > Len(M) THEN [c |-> c, r |-> <<>>]
    ELSE LET Rest(h) == Prepend(h.r, DecryptRows(h.c, M, i + 1, who))
         IN  Rest(DecryptVec(c, M[i], who))

\* EigenfacesClient.Encrypt: _encrypt_vec of every row.
Encrypt(M) == [i \in 1..Len(M) |-> EncryptVec(M[i])]

\* EigenfacesClient._reencrypt_mat (the server's reencrypt).
ReencryptMat(c, M) ==
    IF ~Ok(c) THEN [c |-> c, r |-> <<>>]
    ELSE LET Encrypted(d) ==
                 [c |-> UsedContext(d.c, Len(Flatten(d.r)), "_reencrypt_mat"),
                  r |-> Encrypt(d.r)]
         IN  Encrypted(DecryptRows([c EXCEPT !.reenc = @ + 1, !.rmul = c.mul],
                                   M, 1, "_reencrypt_mat"))

\* A method that hands back the list or matrix it has made as it is.
KeepAsMade(p) == p

\* `return self.reencrypt_vec(result)`: the list p.r a method has made,
\* handed back reencrypted.
RefreshVec(p) == IF ~Ok(p.c) THEN p ELSE ReencryptVec(p.c, p.r)

\* `temp_prod_1.append(self.reencrypt(temp_prod_2))`: the matrix p.r a
\* method has made, handed back reencrypted.
RefreshMat(p) == IF ~Ok(p.c) THEN p ELSE ReencryptMat(p.c, p.r)

\* self.reencrypt_vec([x])[0]: one value reencrypted; old is what the
\* caller's variable keeps when the call raises.
ReencryptOne(c, x, old) ==
    LET First(re) == [c |-> re.c, r |-> IF Ok(re.c) THEN re.r[1] ELSE old]
    IN  First(ReencryptVec(c, <<x>>))

\* EigenfacesClient._goldschmidt_initializer: 1 / x, through decrypt and
\* encrypt when x is a ciphertext.
GoldschmidtInitializer(c, x) ==
    IF ~Ok(c) THEN [c |-> c, r |-> x]
    ELSE LET c1 == [c EXCEPT !.seed = @ + 1]
             c2 == IF x.e
                   THEN [c1 EXCEPT !.dec = @ + 1,
                                   !.decIn = @ \cup {"_goldschmidt_initializer"},
                                   !.ctxIn = IF x.v = 0 THEN @
                                             ELSE @ \cup {"_goldschmidt_initializer"}]
                   ELSE c1
         IN  IF x.v = 0 THEN [c |-> Raise(c2, "ZeroDivisionError"), r |-> x]
             ELSE [c |-> c2,
                   r |-> IF x.e THEN Enc(FxRecip(x.v)) ELSE Plain(FxRecip(x.v))]

\* Variance threshold v = 0.99, as VarNum / VarDen.
VarNum == 99

VarDen == 100

RECURSIVE CumSum(_, _)
\* np.cumsum(L)[i-1]: the sum of the first i values.
CumSum(L, i) == IF i = 0 THEN 0 ELSE CumSum(L, i - 1) + L[i].v

\* cumsum / total > v as numpy decides it: a zero total divides to +-inf
\* or nan, and nan compares false.
ExceedsThreshold(cs, total) ==
    IF total > 0 THEN VarDen * cs > VarNum * total
    ELSE IF total < 0 THEN VarDen * cs < VarNum * total
    ELSE cs > 0

\* The index `for i, ... in enumerate(...)` returns: the first i (from 0)
\* whose cumulative share exceeds the threshold, None when there is none.
FirstExceeding(L) ==
    LET total == CumSum(L, Len(L))
        hits  == {i \in 1..Len(L) : ExceedsThreshold(CumSum(L, i), total)}
    IN  IF hits = {} THEN NoneVal
        ELSE (CHOOSE i \in hits : \A j \in hits : i <= j) - 1

\* EigenfacesClient._n_components_comparison.
NComponentsComparison(c, Lambdas) ==
    IF ~Ok(c) THEN [c |-> c, r |-> NoneVal]
    ELSE LET Counted(d) ==
                 [c |-> d.c,
                  r |-> IF Ok(d.c) THEN FirstExceeding(d.r) ELSE NoneVal]
         IN  Counted(DecryptVec(c, Lambdas, "_n_components_comparison"))

\* np.argmax: the first position (from 0) of the greatest value.
ArgMax(D) ==
    (CHOOSE i \in 1..Len(D) :
        /\ \A j \in 1..Len(D) : D[i].v >= D[j].v
        /\ \A j \in 1..(i - 1) : D[j].v < D[i].v) - 1

\* np.argmin: the first position (from 0) of the least value.
ArgMin(D) ==
    (CHOOSE i \in 1..Len(D) :
        /\ \A j \in 1..Len(D) : D[i].v <= D[j].v
        /\ \A j \in 1..(i - 1) : D[j].v > D[i].v) - 1

\* EigenfacesClient._distance_comparison: argmin of an empty sequence is
\* numpy's ValueError.
DistanceComparison(c, D) ==
    IF ~Ok(c) THEN [c |-> c, r |-> NoneVal]
    ELSE LET Least(d) ==
                 IF ~Ok(d.c) THEN [c |-> d.c, r |-> NoneVal]
                 ELSE IF Len(D) = 0
                 THEN [c |-> Raise(d.c, "ValueError"), r |-> NoneVal]
                 ELSE [c |-> d.c, r |-> ArgMin(d.r)]
         IN  Least(DecryptVec(c, D, "_distance_comparison"))

\* ------------------------------------------------- EigenfacesServer

\* no_iterations of _goldschmidt_division.
GoldschmidtIterations == 1

\* no_iterations of _newton_sqrt.
NewtonIterations == 30

\* no_iterations of _pow_eig_comb.
PowerIterations == 2

RECURSIVE GoldschmidtLoop(_, _, _, _)
\* for _ in range(no_iterations): a = r * a
GoldschmidtLoop(c, r, a, k) ==
    IF k = 0 \/ ~Ok(c) THEN [c |-> c, r |-> a]
    ELSE LET Rest(m) == GoldschmidtLoop(m.c, r, m.r, k - 1)
         IN  Rest(Mul(c, r, a))

\* A division that hands its quotient back as the last multiplication left
\* it, without reencrypt_vec.
GoldschmidtDivisionNoRefresh(c, a, b) ==
    IF ~Ok(c) THEN [c |-> c, r |-> a]
    ELSE LET Quotient(m) == IF ~Ok(m.c) THEN [c |-> m.c, r |-> a] ELSE m
             Seeded(s) ==
                 IF ~Ok(s.c) THEN [c |-> s.c, r |-> a]
                 ELSE Quotient(GoldschmidtLoop(s.c, s.r, a,
                                               GoldschmidtIterations))
         IN  Seeded(GoldschmidtInitializer(c, b))

\* A division whose first approximation the server makes itself, decrypting
\* the divisor.
GoldschmidtDivisionInClear(c, a, b) ==
    IF ~Ok(c) THEN [c |-> c, r |-> a]
    ELSE LET Quotient(m) ==
                 IF ~Ok(m.c) THEN [c |-> m.c, r |-> a]
                 ELSE IF m.r.e THEN ReencryptOne(m.c, m.r, a)
                 ELSE m
             Seeded(s) ==
                 IF ~Ok(s.c) THEN [c |-> s.c, r |-> a]
                 ELSE Quotient(GoldschmidtLoop(s.c, s.r, a,
                                               GoldschmidtIterations))
             Decrypted(d) ==
                 IF b.v = 0
                 THEN [c |-> Raise(d.c, "ZeroDivisionError"), r |-> b]
                 ELSE [c |-> UsedContext(d.c, 1, "_goldschmidt_division"),
                       r |-> IF b.e THEN Enc(FxRecip(b.v))
                             ELSE Plain(FxRecip(b.v))]
         IN  Seeded(Decrypted(
                 IF b.e THEN DecryptVec(c, <<b>>, "_goldschmidt_division")
                 ELSE [c |-> c, r |-> <<b>>]))

\* EigenfacesServer._goldschmidt_division: a / b.
GoldschmidtDivision(c, a, b) ==
    IF ~Ok(c) THEN [c |-> c, r |-> a]
    ELSE LET Quotient(m) ==
                 IF ~Ok(m.c) THEN [c |-> m.c, r |-> a]
                 ELSE IF m.r.e THEN ReencryptOne(m.c, m.r, a)
                 ELSE m
             Seeded(s) ==
                 IF ~Ok(s.c) THEN [c |-> s.c, r |-> a]
                 ELSE Quotient(GoldschmidtLoop(s.c, s.r, a,
                                               GoldschmidtIterations))
         IN  Seeded(GoldschmidtInitializer(c, b))

RECURSIVE GoldschmidtVectorDivision(_, _, _)
\* EigenfacesServer._goldschmidt_vector_division: every entry of A over b.
GoldschmidtVectorDivision(c, A, b) ==
    IF ~Ok(c) \/ Len(A) = 0 THEN [c |-> c, r |-> <<>>]
    ELSE LET Rest(h) == Prepend(h.r, GoldschmidtVectorDivision(h.c, Tail(A), b))
         IN  Rest(GoldschmidtDivision(c, Head(A), b))

\* A round of the loop of _newton_sqrt that divides twice: it asks for
\* a / x0 again and uses the second quotient.
NewtonStepDividingTwice(s, a) ==
    LET Refreshed(h) ==
            IF Ok(h.c) /\ a.e THEN ReencryptOne(h.c, h.r, s.r)
            ELSE [c |-> h.c, r |-> IF Ok(h.c) THEN h.r ELSE s.r]
        Divided(d) ==
            IF ~Ok(d.c) THEN [c |-> d.c, r |-> s.r]
            ELSE Refreshed(Mul(d.c, Plain(Scale \div 2), Add(s.r, d.r)))
        Again(d) ==
            IF ~Ok(d.c) THEN [c |-> d.c, r |-> s.r]
            ELSE Divided(GoldschmidtDivision(d.c, a, s.r))
    IN  Again(GoldschmidtDivision(s.c, a, s.r))

\* One round of the loop of _newton_sqrt on s = [c, r], r being x0:
\* x0 = 0.5 * (x0 + a / x0), reencrypted when a is a ciphertext.  A round
\* that raises leaves x0 as it was.
NewtonStep(s, a) ==
    LET Refreshed(h) ==
            IF Ok(h.c) /\ a.e THEN ReencryptOne(h.c, h.r, s.r)
            ELSE [c |-> h.c, r |-> IF Ok(h.c) THEN h.r ELSE s.r]
        Divided(d) ==
            IF ~Ok(d.c) THEN [c |-> d.c, r |-> s.r]
            ELSE Refreshed(Mul(d.c, Plain(Scale \div 2), Add(s.r, d.r)))
    IN  Divided(GoldschmidtDivision(s.c, a, s.r))

RECURSIVE NewtonLoop(_, _, _)
\* for _ in range(no_iterations): k rounds from s on, as the first
\* k \div 2 of them followed by the others.
NewtonLoop(s, a, k) ==
    IF k = 0 \/ ~Ok(s.c) THEN s
    ELSE IF k = 1 THEN NewtonStep(s, a)
    ELSE NewtonLoop(NewtonLoop(s, a, k \div 2), a, k - k \div 2)

\* EigenfacesServer._newton_sqrt.
NewtonSqrt(c, x0) == NewtonLoop([c |-> c, r |-> x0], x0, NewtonIterations)

RECURSIVE MulSeq(_, _, _)
\* The products A[i] * B[i], in order.
MulSeq(c, A, B) ==
    IF ~Ok(c) \/ Len(A) = 0 THEN [c |-> c, r |-> <<>>]
    ELSE LET Rest(h) == Prepend(h.r, MulSeq(h.c, Tail(A), Tail(B)))
         IN  Rest(Mul(c, Head(A), Head(B)))

RECURSIVE SumSeq(_)
\* np.sum of a list of values: 0.0 for the empty list.
SumSeq(S) == IF Len(S) = 0 THEN Plain(0) ELSE Add(Head(S), SumSeq(Tail(S)))

\* EigenfacesServer._norm.
Norm(c, X) ==
    IF ~Ok(c) THEN [c |-> c, r |-> Plain(0)]
    ELSE LET Root(sq) ==
                 IF ~Ok(sq.c) THEN [c |-> sq.c, r |-> Plain(0)]
                 ELSE NewtonSqrt(sq.c, Add(Plain(0), SumSeq(sq.r)))
         IN  Root(MulSeq(c, X, X))

\* X.T of a matrix whose rows have equal length.
Transpose(X) ==
    IF Len(X) = 0 THEN <<>>
    ELSE [j \in 1..Len(X[1]) |-> [i \in 1..Len(X) |-> X[i][j]]]

\* M[:, j], the j-th column.
Column(M, j) == [i \in 1..Len(M) |-> M[i][j]]

\* The element-wise sum of two vectors of equal length.
AddVec(A, B) == [i \in 1..Len(A) |-> Add(A[i], B[i])]

\* The element-wise sum of two matrices of equal shape.
AddMat(A, B) == [i \in 1..Len(A) |-> AddVec(A[i], B[i])]

RECURSIVE ScaleSeq(_, _, _)
\* The products V[i] * x, in order.
ScaleSeq(c, V, x) ==
    IF ~Ok(c) \/ Len(V) = 0 THEN [c |-> c, r |-> <<>>]
    ELSE LET Rest(h) == Prepend(h.r, ScaleSeq(h.c, Tail(V), x))
         IN  Rest(Mul(c, Head(V), x))

\* -1 * V on a numpy array.
Negate(c, V) == ScaleSeq(c, V, Plain(0 - Scale))

\* EigenfacesServer._vec_mult: V * x, reencrypted.
VecMult(c, V, x) == RefreshVec(ScaleSeq(c, V, x))

RECURSIVE CrossRows(_, _, _, _)
\* The rows i.. of the outer product: V1[i] * V2[j] for j < n = len(V1).
CrossRows(c, V1, V2, i) ==
    IF ~Ok(c) \/ i > Len(V1) THEN [c |-> c, r |-> <<>>]
    ELSE IF Len(V2) < Len(V1) THEN [c |-> Raise(c, "IndexError"), r |-> <<>>]
    ELSE LET Rest(h) == Prepend(h.r, CrossRows(h.c, V1, V2, i + 1))
         IN  Rest(ScaleSeq(c, SubSeq(V2, 1, Len(V1)), V1[i]))

\* EigenfacesServer._vec_cross: the outer product, reencrypted.
VecCross(c, V1, V2) == RefreshMat(CrossRows(c, V1, V2, 1))

RECURSIVE MatVecRows(_, _, _, _, _)
\* The rows i.. of M * V over the first cols_M entries.
MatVecRows(c, M, V, cols, i) ==
    IF ~Ok(c) \/ i > Len(M) THEN [c |-> c, r |-> <<>>]
    ELSE IF Len(V) < cols \/ Len(M[i]) < cols
    THEN [c |-> Raise(c, "IndexError"), r |-> <<>>]
    ELSE LET Rest(h) ==
                 Prepend(SumSeq(h.r), MatVecRows(h.c, M, V, cols, i + 1))
         IN  Rest(MulSeq(c, SubSeq(M[i], 1, cols), SubSeq(V, 1, cols)))

\* EigenfacesServer._mat_vec_mult: len(M[0]) of an empty M is an
\* IndexError; the product is reencrypted.
MatVecMult(c, M, V) ==
    IF ~Ok(c) THEN [c |-> c, r |-> <<>>]
    ELSE IF Len(M) = 0 THEN [c |-> Raise(c, "IndexError"), r |-> <<>>]
    ELSE RefreshVec(MatVecRows(c, M, V, Len(M[1]), 1))

RECURSIVE MatMultRow(_, _, _, _, _)
\* Row i of A * B from column j on: the sum over k < rows_b of
\* A[i][k] * B[k][j].
MatMultRow(c, A, B, i, j) ==
    IF ~Ok(c) \/ j > Len(B[1]) THEN [c |-> c, r |-> <<>>]
    ELSE IF Len(A[i]) < Len(B) \/ \E k \in 1..Len(B) : Len(B[k]) < j
    THEN [c |-> Raise(c, "IndexError"), r |-> <<>>]
    ELSE LET Rest(h) == Prepend(SumSeq(h.r), MatMultRow(h.c, A, B, i, j + 1))
         IN  Rest(MulSeq(c, SubSeq(A[i], 1, Len(B)), Column(B, j)))

RECURSIVE MatMultRows(_, _, _, _)
\* The rows i.. of A * B.
MatMultRows(c, A, B, i) ==
    IF ~Ok(c) \/ i > Len(A) THEN [c |-> c, r |-> <<>>]
    ELSE LET Rest(h) == Prepend(h.r, MatMultRows(h.c, A, B, i + 1))
         IN  Rest(MatMultRow(c, A, B, i, 1))

\* EigenfacesServer._matrix_mult: len(B[0]) of an empty B is an
\* IndexError; the product is reencrypted.
MatrixMult(c, A, B) ==
    IF ~Ok(c) THEN [c |-> c, r |-> <<>>]
    ELSE IF Len(B) = 0 THEN [c |-> Raise(c, "IndexError"), r |-> <<>>]
    ELSE RefreshMat(MatMultRows(c, A, B, 1))

RECURSIVE PowerLoop(_, _, _, _, _, _)
\* for j in range(no_iterations) of _pow_eig_comb: x = C w, the norm of
\* x as eigenvalue, w = x / norm; w_old is w[0] of iteration
\* no_iterations - 2.
PowerLoop(c, C, w, lam, w_old, j) ==
    IF j = PowerIterations \/ ~Ok(c)
    THEN [c |-> c, w |-> w, lam |-> lam, w_old |-> w_old]
    ELSE LET Fail(e) == [c |-> e, w |-> w, lam |-> lam, w_old |-> w_old]
             Rest(l, d) ==
                 IF ~Ok(d.c) THEN Fail(d.c)
                 ELSE PowerLoop(d.c, C, d.r, l.r,
                                IF j + 2 = PowerIterations THEN d.r[1]
                                ELSE w_old,
                                j + 1)
             Normed(x, l) ==
                 IF ~Ok(l.c) THEN Fail(l.c)
                 ELSE Rest(l, GoldschmidtVectorDivision(l.c, x.r, l.r))
             Multiplied(x) ==
                 IF ~Ok(x.c) THEN Fail(x.c) ELSE Normed(x, Norm(x.c, x.r))
         IN  Multiplied(MatVecMult(c, C, w))

\* _pow_eig_comb, lines 233-236: w = x / norm(x) for x = np.ones(n).
StartVector(c, n) ==
    LET Divided(nx) ==
            IF ~Ok(nx.c) THEN [c |-> nx.c, r |-> <<>>]
            ELSE GoldschmidtVectorDivision(
                     nx.c, [i \in 1..n |-> Plain(Scale)], nx.r)
    IN  Divided(Norm(c, [i \in 1..n |-> Plain(Scale)]))

\* _pow_eig_comb, lines 251-256: dividend = w[0] / w_old, the eigenvalue
\* and the eigenvector times the dividend, the eigenvector reencrypted.
SignedEigenpair(c, w, lam, w_old) ==
    LET Fail(e) == [c |-> e, lam |-> lam, w |-> w]
        Refreshed(l, w2) == [c |-> w2.c, lam |-> l.r, w |-> w2.r]
        Scaled(l, w1) ==
            IF ~Ok(w1.c) THEN Fail(w1.c) ELSE Refreshed(l, RefreshVec(w1))
        Valued(dv, l) ==
            IF ~Ok(l.c) THEN Fail(l.c) ELSE Scaled(l, VecMult(l.c, w, dv.r))
        Divided(dv) ==
            IF ~Ok(dv.c) THEN Fail(dv.c) ELSE Valued(dv, Mul(dv.c, dv.r, lam))
    IN  Divided(GoldschmidtDivision(c, w[1], w_old))

\* A pass that leaves C as it was passed in.
DeflateNothing(c, C, lam, w) == [c |-> c, r |-> C]

\* _pow_eig_comb, lines 261-264: C += (w * (-1 * lambda)) cross w.
Deflate(c, C, lam, w) ==
    LET Added(t2) ==
            [c |-> t2.c, r |-> IF Ok(t2.c) THEN AddMat(C, t2.r) ELSE C]
        Scaled(t1) ==
            IF ~Ok(t1.c) THEN [c |-> t1.c, r |-> C]
            ELSE Added(VecCross(t1.c, t1.r, w))
        Negated(nl) ==
            IF ~Ok(nl.c) THEN [c |-> nl.c, r |-> C]
            ELSE Scaled(VecMult(nl.c, w, nl.r))
    IN  Negated(Mul(c, Plain(0 - Scale), lam))

\* One pass of `for _ in range(n)` of _pow_eig_comb: the eigenpair
\* extracted from C starting at the all-ones vector, and C deflated by it.
ExtractEigenpair(c, C) ==
    LET Fail(e) == [c |-> e, lam |-> Plain(0), w |-> <<>>, C |-> C]
        Deflated(s, d) ==
            IF ~Ok(d.c) THEN Fail(d.c)
            ELSE [c |-> d.c, lam |-> s.lam, w |-> s.w, C |-> d.r]
        Signed(s) ==
            IF ~Ok(s.c) THEN Fail(s.c)
            ELSE Deflated(s, Deflate(s.c, C, s.lam, s.w))
        Iterated(p) ==
            IF ~Ok(p.c) THEN Fail(p.c)
            ELSE Signed(SignedEigenpair(p.c, p.w, p.lam, p.w_old))
        Started(w0) ==
            IF ~Ok(w0.c) THEN Fail(w0.c)
            ELSE Iterated(PowerLoop(w0.c, C, w0.r, Plain(0), Plain(Scale), 0))
    IN  Started(StartVector(c, Len(C)))

RECURSIVE PowEigLoop(_, _, _, _, _)
\* The k passes of `for _ in range(n)` still to run.
PowEigLoop(c, C, lambdas, W, k) ==
    IF k = 0 \/ ~Ok(c) THEN [c |-> c, lambdas |-> lambdas, W |-> W]
    ELSE LET Rest(x) ==
                 IF ~Ok(x.c) THEN [c |-> x.c, lambdas |-> lambdas, W |-> W]
                 ELSE PowEigLoop(x.c, x.C, Append(lambdas, x.lam),
                                 Append(W, x.w), k - 1)
         IN  Rest(ExtractEigenpair(c, C))

\* EigenfacesServer._pow_eig_comb: n eigenvalues and eigenvectors of the
\* n x n matrix C.
PowEigComb(c, C) == PowEigLoop(c, C, <<>>, <<>>, Len(C))

RECURSIVE NormalizeColumns(_, _, _, _)
\* for i in range(n): W[:, i] = W[:, i] / norm(W[:, i]) (columns i..n).
NormalizeColumns(c, W, i, n) ==
    IF i > n \/ ~Ok(c) THEN [c |-> c, r |-> W]
    ELSE LET Rest(q) ==
                 IF ~Ok(q.c) THEN [c |-> q.c, r |-> W]
                 ELSE NormalizeColumns(
                          q.c,
                          [r \in 1..Len(W) |-> [W[r] EXCEPT ![i] = q.r[r]]],
                          i + 1, n)
             Normed(nm) ==
                 IF ~Ok(nm.c) THEN [c |-> nm.c, r |-> W]
                 ELSE Rest(GoldschmidtVectorDivision(nm.c, Column(W, i),
                                                     nm.r))
         IN  Normed(Norm(c, Column(W, i)))

\* Step 1 of _pca, `X += -1 * self.mean_face`: the caller's array after it.
SubtractMean(c, X, mean_face) ==
    LET Added(neg) ==
            [c |-> neg.c, r |-> [i \in 1..Len(X) |-> AddVec(X[i], neg.r)]]
    IN  Added(Negate(c, mean_face))

\* _pca, lines 182-187: eig_vec = [W[0], ..., W[k-1]]; range(0, None) is a
\* TypeError.
KeepComponents(c, k, W) ==
    IF ~Ok(c) THEN [c |-> c, r |-> <<>>]
    ELSE IF k = NoneVal THEN [c |-> Raise(c, "TypeError"), r |-> <<>>]
    ELSE [c |-> c, r |-> [i \in 1..k |-> W[i]]]

\* Step 3 of _pca: the rows of W kept for the number k the client returns.
SelectComponents(c, Lambdas, W) ==
    LET Keep(k) == KeepComponents(k.c, k.r, W)
    IN  Keep(NComponentsComparison(c, Lambdas))

\* _pca, lines 163 and 165 (or 168 and 170): the covariance matrix A B and
\* its eigenvalues and eigenvectors.
CovarianceEigen(c, A, B) ==
    LET Cov(C) ==
            IF ~Ok(C.c) THEN [c |-> C.c, lambdas |-> <<>>, W |-> <<>>]
            ELSE PowEigComb(C.c, C.r)
    IN  Cov(MatrixMult(c, A, B))

\* Step 2 of _pca on the centred n x d array X: Lambdas and W.
Eigenvectors(c, X) ==
    IF Len(X) > Len(X[1]) THEN CovarianceEigen(c, Transpose(X), X)
    ELSE LET Normalized(E, Wn) ==
                 [c |-> Wn.c, lambdas |-> E.lambdas, W |-> Wn.r]
             Back(E, W) ==
                 IF ~Ok(W.c) THEN [E EXCEPT !.c = W.c]
                 ELSE Normalized(E, NormalizeColumns(W.c, W.r, 1, Len(X)))
             Eig(E) ==
                 IF ~Ok(E.c) THEN E
                 ELSE Back(E, MatrixMult(E.c, Transpose(X), E.W))
         IN  Eig(CovarianceEigen(c, X, Transpose(X)))

\* Steps 2 and 3 of _pca on the centred n x d array X.
PrincipalComponents(c, X) ==
    LET Select(E) ==
            IF ~Ok(E.c) THEN [c |-> E.c, r |-> <<>>]
            ELSE SelectComponents(E.c, E.lambdas, E.W)
    IN  Select(Eigenvectors(c, X))

\* EigenfacesServer._pca: r is the array it returns, X the caller's array
\* as it leaves it.
Pca(c, X, mean_face) ==
    LET Result(Xc, W) == [c |-> W.c, r |-> W.r, X |-> Xc.r]
        Centred(Xc) ==
            IF ~Ok(Xc.c) THEN [c |-> Xc.c, r |-> <<>>, X |-> X]
            ELSE Result(Xc, PrincipalComponents(Xc.c, Xc.r))
    IN  Centred(SubtractMean(c, X, mean_face))

\* EigenfacesServer._vector_mean: the column sums times 1 / n.
VectorMean(c, X) ==
    LET Scaled(dv) ==
            IF ~Ok(dv.c) THEN [c |-> dv.c, r |-> <<>>]
            ELSE ScaleSeq(dv.c,
                          [j \in 1..Len(X[1]) |-> SumSeq(Column(X, j))], dv.r)
    IN  Scaled(GoldschmidtDivision(c, Plain(Scale), Plain(Len(X) * Scale)))

RECURSIVE ProjectLoop(_, _, _, _)
\* for mat in X of _project: W times (the flattened image + mu).
ProjectLoop(c, imgs, W, mu) ==
    IF ~Ok(c) \/ Len(imgs) = 0 THEN [c |-> c, r |-> <<>>]
    ELSE IF Len(Flatten(Head(imgs))) # Len(mu)
    THEN [c |-> Raise(c, "ValueError"), r |-> <<>>]
    ELSE LET Rest(h) == Prepend(h.r, ProjectLoop(h.c, Tail(imgs), W, mu))
         IN  Rest(MatVecMult(c, W, AddVec(Flatten(Head(imgs)), mu)))

\* A _project that negates the caller's mean face where it is (mu *= -1).
ProjectInPlace(c, X, W, mu) ==
    LET Projected(neg, p) == [c |-> p.c, r |-> p.r, W |-> W, mu |-> neg.r]
        Negated(neg) ==
            IF ~Ok(neg.c) THEN [c |-> neg.c, r |-> <<>>, W |-> W, mu |-> mu]
            ELSE Projected(neg, ProjectLoop(neg.c, X, W, neg.r))
    IN  Negated(Negate(c, mu))

\* EigenfacesServer._project: r is the list it returns; W and mu are the
\* caller's arrays as it leaves them (`mu = -1 * mu` rebinds the local
\* name to a new array).
Project(c, X, W, mu) ==
    LET Projected(p) == [c |-> p.c, r |-> p.r, W |-> W, mu |-> mu]
        Negated(neg) ==
            IF ~Ok(neg.c) THEN [c |-> neg.c, r |-> <<>>, W |-> W, mu |-> mu]
            ELSE Projected(ProjectLoop(neg.c, X, W, neg.r))
    IN  Negated(Negate(c, mu))

\* EigenfacesServer._euclidean_distance.
EuclideanDistance(c, p, q) ==
    LET Root(prod) ==
            IF ~Ok(prod.c) THEN [c |-> prod.c, r |-> Plain(0)]
            ELSE NewtonSqrt(prod.c, SumSeq(prod.r))
        Squared(c1, sub) == Root(MulSeq(c1, sub, sub))
        Subtracted(neg) ==
            IF ~Ok(neg.c) THEN [c |-> neg.c, r |-> Plain(0)]
            ELSE Squared(neg.c, AddVec(p, neg.r))
    IN  Subtracted(Negate(c, q))

\* ------------------------------------------------- the two methods

\* The attributes __init__ leaves: is_trained alone is assigned; reading
\* another one before Train assigns it is an AttributeError.
InitServer ==
    [is_trained |-> FALSE, assigned |-> {},
     mean_face |-> <<>>, eigenfaces |-> <<>>,
     projected_training_images |-> <<>>]

\* self.<name>: an AttributeError while <name> was never assigned.
ReadAttr(c, self, name) ==
    IF ~Ok(c) THEN c
    ELSE IF name \in self.assigned \cup {"is_trained"}
         THEN [c EXCEPT !.reads = @ \cup {name}]
         ELSE Raise([c EXCEPT !.reads = @ \cup {name}], "AttributeError")

\* Train, line 50: self.mean_face = self._vector_mean(X).
TrainMeanFace(c, self, X) ==
    LET Stored(m) ==
            [c |-> m.c,
             self |-> IF Ok(m.c)
                      THEN [self EXCEPT !.mean_face = m.r,
                                        !.assigned = @ \cup {"mean_face"}]
                      ELSE self]
    IN  Stored(VectorMean(c, X))

\* Train, line 53: self.eigenfaces = self._pca(X); X is the caller's array
\* as _pca leaves it.
TrainEigenfaces(c, self, X) ==
    LET Stored(p) ==
            [c |-> p.c,
             self |-> IF Ok(p.c)
                      THEN [self EXCEPT !.eigenfaces = p.r,
                                        !.assigned = @ \cup {"eigenfaces"}]
                      ELSE self,
             X |-> p.X]
    IN  Stored(Pca(ReadAttr(c, self, "mean_face"), X, self.mean_face))

\* A line 56 that extends the stored projections by the new ones.
TrainProjectionsAppending(c, self, N) ==
    LET Stored(q) ==
            [c |-> q.c,
             self |-> IF Ok(q.c)
                      THEN [self EXCEPT
                               !.projected_training_images = @ \o q.r,
                               !.assigned = @ \cup {"projected_training_images"}]
                      ELSE self]
    IN  Stored(Project(ReadAttr(ReadAttr(c, self, "eigenfaces"), self,
                                "mean_face"),
                       N, self.eigenfaces, self.mean_face))

\* Train, line 56: self.projected_training_images = self._project(...).
TrainProjections(c, self, N) ==
    LET Stored(q) ==
            [c |-> q.c,
             self |-> IF Ok(q.c)
                      THEN [self EXCEPT
                               !.eigenfaces = q.W, !.mean_face = q.mu,
                               !.projected_training_images = q.r,
                               !.assigned = @ \cup {"projected_training_images"}]
                      ELSE [self EXCEPT !.eigenfaces = q.W, !.mean_face = q.mu]]
    IN  Stored(Project(ReadAttr(ReadAttr(c, self, "eigenfaces"), self,
                                "mean_face"),
                       N, self.eigenfaces, self.mean_face))

\* Train, line 58: self.is_trained = True.
TrainFlag(self) == [self EXCEPT !.is_trained = TRUE]

\* A line 70 that keeps the query projections in the model.
ClassifyProjectionKeeping(c, self, tests) ==
    LET Projected(c1, q) ==
            IF ~Ok(c1) THEN [c |-> c1, self |-> self, q |-> <<>>]
            ELSE [c |-> q.c,
                  self |-> IF Ok(q.c)
                           THEN [self EXCEPT !.projected_training_images = q.r]
                           ELSE self,
                  q |-> q.r]
        Read(c1) ==
            Projected(c1, Project(c1, tests, self.eigenfaces, self.mean_face))
    IN  Read(ReadAttr(ReadAttr(c, self, "eigenfaces"), self, "mean_face"))

\* Classify, line 70: q = self._project(tests, self.eigenfaces,
\* self.mean_face).
ClassifyProjection(c, self, tests) ==
    LET Projected(c1, q) ==
            IF ~Ok(c1) THEN [c |-> c1, self |-> self, q |-> <<>>]
            ELSE [c |-> q.c,
                  self |-> [self EXCEPT !.eigenfaces = q.W, !.mean_face = q.mu],
                  q |-> q.r]
        Read(c1) ==
            Projected(c1, Project(c1, tests, self.eigenfaces, self.mean_face))
    IN  Read(ReadAttr(ReadAttr(c, self, "eigenfaces"), self, "mean_face"))

RECURSIVE Distances(_, _, _, _)
\* for j in range(m): distances.append(self._euclidean_distance(
\* self.projected_training_images[j], q[i])), from j on.
Distances(c, P, qi, j) ==
    IF ~Ok(c) \/ j > Len(P) THEN [c |-> c, r |-> <<>>]
    ELSE LET Rest(h) == Prepend(h.r, Distances(h.c, P, qi, j + 1))
         IN  Rest(EuclideanDistance(c, P[j], qi))

\* Classify, lines 76-85, for one query projection qi: the m distances,
\* the index the client picks, the label at that index.
ClassifyOne(c, self, qi, training_labels) ==
    LET Labelled(d, idx, bad) ==
            [c |-> IF bad THEN Raise(idx.c, "IndexError") ELSE idx.c,
             D |-> [j \in 1..Len(d.r) |-> d.r[j].v],
             idx |-> idx.r,
             label |-> IF Ok(idx.c) /\ ~bad
                       THEN <<training_labels[idx.r + 1]>>
                       ELSE <<>>]
        Picked(d, idx) ==
            Labelled(d, idx, Ok(idx.c) /\ idx.r + 1 > Len(training_labels))
        Measured(d) ==
            IF ~Ok(d.c)
            THEN [c |-> d.c, D |-> <<>>, idx |-> NoneVal, label |-> <<>>]
            ELSE Picked(d, DistanceComparison(d.c, d.r))
    IN  Measured(Distances(c, self.projected_training_images, qi, 1))

\* Classify, line 74: m = len(self.projected_training_images).
ClassifyCount(c, self) ==
    LET Counted(c1) ==
            [c |-> c1,
             m |-> IF Ok(c1) THEN Len(self.projected_training_images) ELSE 0]
    IN  Counted(ReadAttr(c, self, "projected_training_images"))

\* ------------------------------------------------- the caller (main.py)

\* One grey level of the images below, a quarter of 1.0: a pixel is one of
\* the levels 0 (black) to 8 (white), or up to 16 in the set "fewer".
PixelUnit == Scale \div 4

\* What Image_preprocesser returns: every image a matrix of floats.
Preprocess(levels) ==
    [i \in 1..Len(levels) |->
        [r \in 1..Len(levels[i]) |->
            [k \in 1..Len(levels[i][r]) |-> Plain(levels[i][r][k] * PixelUnit)]]]

\* Image_vector_representation: every image reshaped to one row.
VectorRepresentation(imgs) == [i \in 1..Len(imgs) |-> Flatten(imgs[i])]

\* main.py 59-62 and 68-71: every image encrypted by Client.Encrypt.
EncryptImages(imgs) == [i \in 1..Len(imgs) |-> Encrypt(imgs[i])]

\* The training sets a caller may hold: three images of 1 x 2 pixels
\* (twice), white and black images of 2 x 2 pixels, as many images as
\* pixels, fewer images than pixels (three of 2 x 2), and no image at all.
TrainingSets == {"spreadA", "spreadB", "whiteBlack", "wide", "fewer", "empty"}

TrainingLevels(name) ==
    CASE name = "spreadA" -> << <<<<0, 0>>>>, <<<<0, 4>>>>, <<<<4, 8>>>> >>
      [] name = "spreadB" -> << <<<<0, 0>>>>, <<<<0, 8>>>>, <<<<4, 4>>>> >>
      [] name = "whiteBlack" ->
            << <<<<8, 7>>, <<7, 7>>>>, <<<<8, 7>>, <<7, 7>>>>,
               <<<<8, 8>>, <<8, 7>>>>,
               <<<<0, 0>>, <<1, 1>>>>, <<<<1, 1>>, <<0, 1>>>> >>
      [] name = "wide" -> << <<<<8, 0>>>>, <<<<0, 8>>>> >>
      [] name = "fewer" ->
            << <<<<4, 0>>, <<16, 10>>>>, <<<<16, 16>>, <<12, 16>>>>,
               <<<<16, 1>>, <<1, 3>>>> >>
      [] OTHER -> <<>>

TrainingLabels(name) ==
    CASE name = "spreadA" -> <<"ann", "bob", "cy">>
      [] name = "spreadB" -> <<"ann", "bob", "cy">>
      [] name = "whiteBlack" -> <<"white", "white", "white", "black", "black">>
      [] name = "wide" -> <<"left", "right">>
      [] name = "fewer" -> <<"dee", "eve", "fay">>
      [] OTHER -> <<>>

\* The test sets a caller may hold.
TestSets == {"between", "pair", "member", "nearWhite", "none"}

TestLevels(name) ==
    CASE name = "between" -> << <<<<4, 4>>>> >>
      [] name = "pair" -> << <<<<0, 8>>>>, <<<<8, 8>>>> >>
      [] name = "member" -> << <<<<4, 8>>>> >>
      [] name = "nearWhite" -> << <<<<8, 8>>, <<7, 8>>>> >>
      [] OTHER -> <<>>

EncryptedNormalized(levels) == EncryptImages(Preprocess(levels))

EncryptedVectorized(levels) == Encrypt(VectorRepresentation(Preprocess(levels)))

\* ------------------------------------------------- the state machine

\* Calls of Train and Classify in one run.
MaxCalls == 3

VARIABLES
    server,           \* the attributes of the EigenfacesServer object
    data,             \* the training directory the caller's arrays come from
    train_norm,       \* encrypted_normalized_training_images
    train_vec,        \* encrypted_vectorized_training_images
    training_labels,  \* training_image_labels
    tests,            \* the test directory of the running Classify call
    pc,               \* the statement the running call is at
    loc,              \* the locals of the running call
    ctx,              \* what the running call has done so far
    out,              \* how the last finished call ended
    calls,            \* calls made so far
    args,             \* the arguments of the last Train call, as passed,
                      \* and which Train call assigned each attribute
    seen              \* the Classify calls finished since the last Train call

vars == <<server, data, train_norm, train_vec, training_labels, tests, pc,
          loc, ctx, out, calls, args, seen>>

NoLoc == [q |-> <<>>, m |-> 0, i |-> 0, test_labels |-> <<>>, picks |-> <<>>]

NoOut ==
    [call |-> "", err |-> "", result |-> <<>>, picks |-> <<>>, reads |-> {},
     tests |-> "none", labels |-> <<>>]

\* No attribute was assigned by a Train call, and none has returned.
NoWriter == [mean_face |-> 0, eigenfaces |-> 0, projected_training_images |-> 0]

NoArgs ==
    [data |-> "", prev |-> "", N |-> <<>>, X |-> <<>>, trains |-> 0,
     used |-> FALSE, wrote |-> NoWriter, done |-> {}]

\* Some ciphertext of the matrix M is not as Client.Encrypt made it: it has
\* levels used up.
Used(M) == \E i \in 1..Len(M) : \E j \in 1..Len(M[i]) : M[i][j].l < Budget

Init ==
    /\ server = InitServer
    /\ data = "empty"
    /\ train_norm = EncryptedNormalized(TrainingLevels(data))
    /\ train_vec = EncryptedVectorized(TrainingLevels(data))
    /\ training_labels = TrainingLabels(data)
    /\ tests = "none"
    /\ pc = "idle"
    /\ loc = NoLoc
    /\ ctx = NoCtx
    /\ out = NoOut
    /\ calls = 0
    /\ args = NoArgs
    /\ seen = {}

\* How a call ends: an exception (c.err) or a returned value.
Return(call, c, result, picks) ==
    /\ pc' = "idle"
    /\ loc' = NoLoc
    /\ ctx' = c
    /\ out' = [call |-> call, err |-> c.err, result |-> result,
               picks |-> picks, reads |-> c.reads,
               tests |-> tests, labels |-> training_labels]

\* The caller calls Server.Train(train_norm, train_vec): on the arrays it
\* holds (again), or on arrays it has just made of the training set `name`
\* as main.py 51-65 makes them.
CallTrain(name, again) ==
    /\ pc = "idle"
    /\ calls < MaxCalls
    /\ again => name = data /\ args.data = data
    /\ LET N == IF again THEN train_norm
                ELSE EncryptedNormalized(TrainingLevels(name))
           X == IF again THEN train_vec
                ELSE EncryptedVectorized(TrainingLevels(name))
       IN  /\ train_norm' = N
           /\ train_vec' = X
           /\ args' = [data |-> name, prev |-> args.data, N |-> N, X |-> X,
                       trains |-> args.trains,
                       used |-> args.used \/ Used(X),
                       wrote |-> args.wrote, done |-> args.done]
    /\ data' = name
    /\ training_labels' = TrainingLabels(name)
    /\ calls' = calls + 1
    /\ pc' = "train_mean_face"
    /\ ctx' = NoCtx
    /\ loc' = NoLoc
    /\ seen' = {}
    /\ UNCHANGED <<server, tests, out>>

\* Train, line 50.
TrainStepMeanFace ==
    /\ pc = "train_mean_face"
    /\ LET Assigned(s) ==
               /\ server' = s.self
               /\ IF Ok(s.c)
                  THEN /\ pc' = "train_eigenfaces"
                       /\ ctx' = s.c
                       /\ args' = [args EXCEPT !.wrote.mean_face = calls]
                       /\ UNCHANGED <<loc, out>>
                  ELSE /\ Return("Train", s.c, <<>>, <<>>)
                       /\ UNCHANGED args
       IN  Assigned(TrainMeanFace(ctx, server, train_vec))
    /\ UNCHANGED <<data, train_norm, train_vec, training_labels, tests,
                   calls, seen>>

\* Train, line 53.
TrainStepEigenfaces ==
    /\ pc = "train_eigenfaces"
    /\ LET Assigned(s) ==
               /\ server' = s.self
               /\ train_vec' = s.X
               /\ IF Ok(s.c)
                  THEN /\ pc' = "train_projections"
                       /\ ctx' = s.c
                       /\ args' = [args EXCEPT !.wrote.eigenfaces = calls]
                       /\ UNCHANGED <<loc, out>>
                  ELSE /\ Return("Train", s.c, <<>>, <<>>)
                       /\ UNCHANGED args
       IN  Assigned(TrainEigenfaces(ctx, server, train_vec))
    /\ UNCHANGED <<data, train_norm, training_labels, tests, calls, seen>>

\* Train, line 56.
TrainStepProjections ==
    /\ pc = "train_projections"
    /\ LET Assigned(s) ==
               /\ server' = s.self
               /\ IF Ok(s.c)
                  THEN /\ pc' = "train_flag"
                       /\ ctx' = s.c
                       /\ args' = [args EXCEPT
                                       !.wrote.projected_training_images = calls]
                       /\ UNCHANGED <<loc, out>>
                  ELSE /\ Return("Train", s.c, <<>>, <<>>)
                       /\ UNCHANGED args
       IN  Assigned(TrainProjections(ctx, server, train_norm))
    /\ UNCHANGED <<data, train_norm, train_vec, training_labels, tests,
                   calls, seen>>

\* Train, line 58, and the return of None.
TrainStepFlag ==
    /\ pc = "train_flag"
    /\ server' = TrainFlag(server)
    /\ args' = [args EXCEPT !.trains = @ + 1, !.done = @ \cup {calls}]
    /\ Return("Train", ctx, <<>>, <<>>)
    /\ UNCHANGED <<data, train_norm, train_vec, training_labels, tests,
                   calls, seen>>

\* The caller calls Server.Classify(the encrypted test images,
\* training_labels).
CallClassify(name) ==
    /\ pc = "idle"
    /\ calls < MaxCalls
    /\ calls' = calls + 1
    /\ tests' = name
    /\ pc' = "classify_project"
    /\ ctx' = NoCtx
    /\ loc' = NoLoc
    /\ UNCHANGED <<server, data, train_norm, train_vec, training_labels,
                   out, args, seen>>

\* What a finished Classify call adds to the calls seen since Train.
Seen(c, result) ==
    seen \cup {[tests |-> tests, labels |-> training_labels,
                err |-> c.err, result |-> result]}

\* Classify, line 70.
ClassifyStepProject ==
    /\ pc = "classify_project"
    /\ LET Projected(s) ==
               /\ server' = s.self
               /\ IF Ok(s.c)
                  THEN /\ pc' = "classify_count"
                       /\ ctx' = s.c
                       /\ loc' = [loc EXCEPT !.q = s.q]
                       /\ UNCHANGED <<out, seen>>
                  ELSE /\ Return("Classify", s.c, <<>>, <<>>)
                       /\ seen' = Seen(s.c, <<>>)
       IN  Projected(ClassifyProjection(
               ctx, server, EncryptedNormalized(TestLevels(tests))))
    /\ UNCHANGED <<data, train_norm, train_vec, training_labels, tests,
                   calls, args>>

\* Classify, lines 72-74: n = len(q) and m.
ClassifyStepCount ==
    /\ pc = "classify_count"
    /\ LET Counted(s) ==
               IF Ok(s.c)
               THEN /\ pc' = "classify_loop"
                    /\ ctx' = s.c
                    /\ loc' = [loc EXCEPT !.m = s.m, !.i = 0]
                    /\ UNCHANGED <<out, seen>>
               ELSE /\ Return("Classify", s.c, <<>>, <<>>)
                    /\ seen' = Seen(s.c, <<>>)
       IN  Counted(ClassifyCount(ctx, server))
    /\ UNCHANGED <<server, data, train_norm, train_vec, training_labels,
                   tests, calls, args>>

\* Classify, lines 76-85: one round of `for i in range(len(q))`.
ClassifyStepQuery ==
    /\ pc = "classify_loop"
    /\ loc.i < Len(loc.q)
    /\ LET Appended(s) ==
               IF Ok(s.c)
               THEN /\ ctx' = s.c
                    /\ loc' = [loc EXCEPT
                                  !.i = @ + 1,
                                  !.test_labels = @ \o s.label,
                                  !.picks = Append(@, [D |-> s.D,
                                                       idx |-> s.idx])]
                    /\ UNCHANGED <<pc, out, seen>>
               ELSE /\ Return("Classify", s.c, <<>>, loc.picks)
                    /\ seen' = Seen(s.c, <<>>)
       IN  Appended(ClassifyOne(ctx, server, loc.q[loc.i + 1],
                                training_labels))
    /\ UNCHANGED <<server, data, train_norm, train_vec, training_labels,
                   tests, calls, args>>

\* Classify, line 86: return test_labels.
ClassifyStepReturn ==
    /\ pc = "classify_loop"
    /\ loc.i = Len(loc.q)
    /\ Return("Classify", ctx, loc.test_labels, loc.picks)
    /\ seen' = Seen(ctx, loc.test_labels)
    /\ UNCHANGED <<server, data, train_norm, train_vec, training_labels,
                   tests, calls, args>>

Next ==
    \/ \E name \in TrainingSets : \E again \in BOOLEAN : CallTrain(name, again)
    \/ TrainStepMeanFace
    \/ TrainStepEigenfaces
    \/ TrainStepProjections
    \/ TrainStepFlag
    \/ \E name \in TestSets : CallClassify(name)
    \/ ClassifyStepProject
    \/ ClassifyStepCount
    \/ ClassifyStepQuery
    \/ ClassifyStepReturn

Spec == Init /\ [][Next]_vars

\* ------------------------------------------------- the claims

\* A Classify call has just ended on a server no Train call ever completed
\* on (line 58 alone sets is_trained, and nothing clears it).
UntrainedClassifyEnded ==
    pc = "idle" /\ out.call = "Classify" /\ ~server.is_trained

\* C1, as the code has it: a Classify call on a server on which Train never
\* completed ends in an exception and returns no label list, but not through
\* a check of the trained flag, which Classify never reads: the exception is
\* the AttributeError of the first model attribute never assigned
\* (eigenfaces, when Train was never called), or an error raised earlier
\* while the queries are projected onto a half-stored model.
C1_UntrainedClassifyRaises ==
    UntrainedClassifyEnded =>
        /\ out.err # ""
        /\ out.result = <<>>
        /\ "is_trained" \notin out.reads
        /\ "projected_training_images" \notin server.assigned
        /\ out.err # "AttributeError" => "eigenfaces" \in server.assigned
        /\ server = InitServer =>
              out.err = "AttributeError" /\ out.reads = {"eigenfaces"}

\* Classify was called before any Train call and ended in AttributeError.
C1_Witness ==
    /\ UntrainedClassifyEnded
    /\ server = InitServer
    /\ out.err = "AttributeError"

\* C1 as stated: the failure is a precondition error raised by an explicit
\* check of the trained flag.
C1_AsStated ==
    UntrainedClassifyEnded => out.err # "" /\ "is_trained" \in out.reads

\* A Classify call has just returned a label list.
ClassifyReturned == pc = "idle" /\ out.call = "Classify" /\ out.err = ""

KeyHolderOracles ==
    {"_n_components_comparison", "_distance_comparison",
     "_goldschmidt_initializer", "_reencrypt_mat", "_reencrypt_vec"}

\* C3: a ciphertext is decrypted, and the encryption context is used, only
\* inside the five Key Holder oracles; no method of the server does either.
C3_DecryptOnlyInOracles ==
    ctx.decIn \subseteq KeyHolderOracles /\ ctx.ctxIn \subseteq KeyHolderOracles

\* A Classify call has returned labels after decryptions inside the
\* oracles it uses.
C3_Witness ==
    /\ pc = "idle" /\ out.call = "Classify" /\ out.err = ""
    /\ Len(out.result) > 0
    /\ ctx.decIn = {"_distance_comparison", "_goldschmidt_initializer",
                    "_reencrypt_vec"}
    /\ ctx.ctxIn # {}

\* idx (from 0) is the first position of a least value of D.
FirstLeast(D, idx) ==
    /\ idx + 1 \in 1..Len(D)
    /\ \A j \in 1..Len(D) : D[idx + 1] <= D[j]
    /\ \A j \in 1..idx : D[j] > D[idx + 1]

\* The distances of the projection qi to the stored projections P, each
\* computed on its own.
DistancesTo(P, qi) ==
    [j \in 1..Len(P) |-> EuclideanDistance(NoCtx, P[j], qi).r.v]

\* C5: a Classify call that returns has one label per query, in query
\* order; for each query the client was asked once, with the distances to
\* all m stored projections in training order, and the label returned is
\* the one at the first position of the least distance.
C5_OneNearestLabelPerQuery ==
    /\ pc = "classify_loop" =>
          Len(loc.test_labels) = loc.i /\ Len(loc.picks) = loc.i
    /\ ClassifyReturned =>
          LET Q == EncryptedNormalized(TestLevels(out.tests))
              P == server.projected_training_images
              q == Project(NoCtx, Q, server.eigenfaces, server.mean_face).r
          IN  /\ Len(out.result) = Len(Q)
              /\ Len(out.picks) = Len(Q)
              /\ \A i \in 1..Len(Q) :
                    /\ out.picks[i].D = DistancesTo(P, q[i])
                    /\ FirstLeast(out.picks[i].D, out.picks[i].idx)
                    /\ out.picks[i].idx < Len(P)
                    /\ out.result[i] = out.labels[out.picks[i].idx + 1]

\* Two queries were classified against three stored projections, and the
\* two labels differ from the first training label.
C5_Witness ==
    /\ ClassifyReturned
    /\ Len(out.result) = 2
    /\ Len(server.projected_training_images) = 3
    /\ \A i \in 1..2 : out.picks[i].idx > 0

\* C6 as stated: Train on the white and black 2 x 2 images, then Classify
\* of the near-white image, returns the white label.
C6_WhiteBlackEndToEnd ==
    (/\ pc = "idle" /\ calls = 2 /\ out.call = "Classify"
     /\ args.data = "whiteBlack" /\ out.tests = "nearWhite") =>
        out.err = "" /\ out.result = <<"white">>

\* What the code does: Train on the white and black images stores an
\* empty eigenface list and raises IndexError while projecting.
C6_Witness ==
    /\ pc = "idle" /\ calls = 1 /\ out.call = "Train"
    /\ args.data = "whiteBlack"
    /\ out.err = "IndexError"
    /\ "eigenfaces" \in server.assigned /\ server.eigenfaces = <<>>
    /\ ~server.is_trained

\* C7: no step of a Classify call changes mean_face, eigenfaces,
\* projected_training_images or the trained flag, nor the caller's
\* training_labels.
C7_ClassifyChangesNothing ==
    [][(pc \in {"classify_project", "classify_count", "classify_loop"}) =>
          (server' = server /\ training_labels' = training_labels)]_vars

\* A Classify call has returned two labels on a trained server.
C7_Witness ==
    /\ ClassifyReturned
    /\ server.is_trained
    /\ Len(out.result) = 2

FirstTrain(N, X) ==
    LET Projected(d) == IF Ok(d.c) THEN TrainFlag(d.self) ELSE d.self
        Eigen(b) ==
            IF Ok(b.c) THEN Projected(TrainProjections(b.c, b.self, N))
            ELSE b.self
        Mean(a) ==
            IF Ok(a.c) THEN Eigen(TrainEigenfaces(a.c, a.self, X))
            ELSE a.self
    IN  Mean(TrainMeanFace(NoCtx, InitServer, X))

\* C9: when a Train call after the first completes, the model is exactly
\* what a first-ever Train on this call's arguments stores: nothing of the
\* earlier model remains.
C9_TrainOverwrites ==
    (pc = "idle" /\ out.call = "Train" /\ out.err = "" /\ args.trains >= 2) =>
        server = FirstTrain(args.N, args.X)

\* A second Train call has completed on another training set than the
\* first.
C9_Witness ==
    /\ pc = "idle" /\ out.call = "Train" /\ out.err = ""
    /\ args.trains = 2
    /\ args.prev # args.data
    /\ ~args.used

\* C10 as stated: Train with zero training images is rejected as invalid
\* input before any arithmetic is done and before any oracle is asked.
C10_EmptyInputRejected ==
    (pc = "idle" /\ out.call = "Train" /\ Len(args.N) = 0) =>
        /\ out.err = "ValueError"
        /\ ctx.seed = 0 /\ ctx.mul = 0 /\ ctx.dec = 0

\* What the code does: Train with zero images asks the client for the
\* reciprocal of 0, whose ZeroDivisionError ends the call.
C10_Witness ==
    /\ pc = "idle" /\ out.call = "Train" /\ Len(args.N) = 0
    /\ out.err = "ZeroDivisionError"
    /\ ctx.seed = 1

\* ------------------------------------------------- step 3 of _pca alone

\* The eigenvalues the lists below are made of, and their greatest length.
EigenValues == {1, 2, 5, 40, 100, 1000}

MaxEigen == 3

\* Every descending list of one to MaxEigen positive eigenvalues.
EigenLists ==
    UNION {{L \in [1..n -> EigenValues] : \A i \in 1..(n - 1) : L[i] >= L[i + 1]} :
           n \in 1..MaxEigen}

\* Step 3 of _pca is entered with the eigenvalue list L and a matrix W whose
\* i-th row is recognisable as the i-th eigenvector.
InitSelect ==
    /\ server = InitServer
    /\ data = "empty"
    /\ train_norm = <<>>
    /\ train_vec = <<>>
    /\ training_labels = <<>>
    /\ tests = "none"
    /\ pc = "select_count"
    /\ \E L \in EigenLists :
          loc = [Lambdas |-> EncryptVec([i \in 1..Len(L) |-> Plain(L[i])]),
                 W |-> [i \in 1..Len(L) |-> <<Enc(i)>>],
                 k |-> NoneVal]
    /\ ctx = NoCtx
    /\ out = NoOut
    /\ calls = 0
    /\ args = NoArgs
    /\ seen = {}

\* _pca, line 178: k = self.determine_components(Lambdas).
SelectStepCount ==
    /\ pc = "select_count"
    /\ LET k == NComponentsComparison(ctx, loc.Lambdas)
       IN  /\ ctx' = k.c
           /\ loc' = [loc EXCEPT !.k = k.r]
    /\ pc' = "select_keep"
    /\ UNCHANGED <<server, data, train_norm, train_vec, training_labels,
                   tests, out, calls, args, seen>>

\* _pca, lines 180-187: the kept rows are returned.
SelectStepKeep ==
    /\ pc = "select_keep"
    /\ LET s == KeepComponents(ctx, loc.k, loc.W)
       IN  /\ ctx' = s.c
           /\ out' = [NoOut EXCEPT !.call = "_pca", !.err = s.c.err,
                                    !.result = s.r]
    /\ pc' = "select_done"
    /\ UNCHANGED <<server, data, train_norm, train_vec, training_labels,
                   tests, loc, calls, args, seen>>

NextSelect == SelectStepCount \/ SelectStepKeep

SpecSelect == InitSelect /\ [][NextSelect]_vars

RECURSIVE SumFirst(_, _)
\* The sum of the first k eigenvalues of the list L.
SumFirst(L, k) == IF k = 0 THEN 0 ELSE SumFirst(L, k - 1) + L[k].v

\* The first k eigenvalues hold more than 0.99 of the total.
Explains(L, k) == 100 * SumFirst(L, k) > 99 * SumFirst(L, Len(L))

\* C4 as stated: the client returns the smallest count k whose first k
\* eigenvalues hold more than 0.99 of their total, and _pca keeps exactly the
\* first k eigenvectors.
C4_SmallestCount ==
    pc = "select_done" =>
        /\ out.err = ""
        /\ loc.k \in 1..Len(loc.Lambdas)
        /\ Explains(loc.Lambdas, loc.k)
        /\ \A j \in 1..(loc.k - 1) : ~Explains(loc.Lambdas, j)
        /\ out.result = [i \in 1..loc.k |-> loc.W[i]]

\* What the code does on a single eigenvalue, which holds all of the
\* variance alone: the client returns 0 and _pca keeps no eigenvector.
C4_Witness ==
    /\ pc = "select_done"
    /\ Len(loc.Lambdas) = 1
    /\ loc.k = 0
    /\ out.result = <<>>

\* ------------------------------------------------- the primitives alone

\* The greatest number of rows or columns of an operand below.
MaxDim == 3

\* An r x c matrix and a vector of n entries of ciphertexts, every entry
\* recognisable by its place.
PrimMatrix(r, c) ==
    [i \in 1..r |-> [j \in 1..c |-> Enc((2 * i + j) * Scale)]]

PrimVector(n) == [j \in 1..n |-> Enc((j + 1) * Scale)]

\* The calls of _matrix_mult: operands of every shape of one to MaxDim
\* rows and columns, matching or not.
MatrixMultCalls ==
    {[op |-> "_matrix_mult", A |-> PrimMatrix(ra, ca), B |-> PrimMatrix(rb, cb)] :
        ra \in 1..MaxDim, ca \in 1..MaxDim, rb \in 1..MaxDim, cb \in 1..MaxDim}

\* The calls of _mat_vec_mult, likewise.
MatVecMultCalls ==
    {[op |-> "_mat_vec_mult", A |-> PrimMatrix(r, c), B |-> PrimVector(n)] :
        r \in 1..MaxDim, c \in 1..MaxDim, n \in 1..MaxDim}

\* The numbers the scalar operands below are: 0, 1/4, 1, 2, 4 and 9.
PrimReals == {0, Scale \div 4, Scale, 2 * Scale, 4 * Scale, 9 * Scale}

\* The calls of _newton_sqrt: a ciphertext or a Python float.
NewtonSqrtCalls ==
    {[op |-> "_newton_sqrt",
      A |-> IF e THEN Enc(v) ELSE Plain(v), B |-> <<>>] :
        v \in PrimReals, e \in BOOLEAN}

\* The calls of _norm: every vector of one to MaxDim ciphertexts of 0, 1
\* or 2.
NormCalls ==
    UNION {{[op |-> "_norm", A |-> X, B |-> <<>>] :
               X \in [1..n -> {Enc(0), Enc(Scale), Enc(2 * Scale)}]} :
           n \in 1..MaxDim}

\* A ciphertext of v that can undergo l more multiplications.
Cipher(v, l) == [e |-> TRUE, v |-> v, l |-> l]

\* The operands of a division: floats, fresh ciphertexts and ciphertexts
\* at their last level.
PrimNumbers ==
    {Plain(v) : v \in PrimReals}
    \cup {Cipher(v, l) : v \in PrimReals, l \in {1, Budget}}

\* The calls of _goldschmidt_division.
DivisionCalls ==
    {[op |-> "_goldschmidt_division", A |-> a, B |-> b] :
        a \in PrimNumbers, b \in PrimNumbers}

\* The calls of _vec_mult: a vector of one to MaxDim ciphertexts, fresh or
\* at their last level, times a float or a ciphertext.
VecMultCalls ==
    {[op |-> "_vec_mult",
      A |-> [j \in 1..n |-> Cipher((j + 1) * Scale, l)], B |-> x] :
        n \in 1..MaxDim, l \in {1, Budget}, x \in PrimNumbers}

\* The calls of _vec_cross: two vectors of ciphertexts, of the same length
\* or not.
VecCrossCalls ==
    {[op |-> "_vec_cross",
      A |-> [j \in 1..n |-> Cipher((j + 1) * Scale, l)],
      B |-> [j \in 1..m |-> Cipher((0 - j) * Scale, k)]] :
        n \in 1..MaxDim, m \in 1..MaxDim, l \in {1, Budget},
        k \in {2, Budget}}

\* One method of the server is called on its own, on the operands loc.A
\* and loc.B.
InitPrim ==
    /\ server = InitServer
    /\ data = "empty"
    /\ train_norm = <<>>
    /\ train_vec = <<>>
    /\ training_labels = <<>>
    /\ tests = "none"
    /\ pc = "prim"
    /\ \/ loc \in MatrixMultCalls
       \/ loc \in MatVecMultCalls
       \/ loc \in NewtonSqrtCalls
       \/ loc \in NormCalls
       \/ loc \in DivisionCalls
       \/ loc \in VecMultCalls
       \/ loc \in VecCrossCalls
    /\ ctx = NoCtx
    /\ out = NoOut
    /\ calls = 0
    /\ args = NoArgs
    /\ seen = {}

\* The method returns p.r or raises p.c.err.
PrimReturn(p) ==
    /\ pc' = "prim_done"
    /\ ctx' = p.c
    /\ out' = [NoOut EXCEPT !.call = loc.op, !.err = p.c.err,
                             !.result = IF Ok(p.c) THEN p.r ELSE <<>>]
    /\ UNCHANGED <<server, data, train_norm, train_vec, training_labels,
                   tests, loc, calls, args, seen>>

\* self._matrix_mult(A, B).
PrimMatrixMult ==
    /\ pc = "prim" /\ loc.op = "_matrix_mult"
    /\ PrimReturn(MatrixMult(ctx, loc.A, loc.B))

\* self._mat_vec_mult(M, V).
PrimMatVecMult ==
    /\ pc = "prim" /\ loc.op = "_mat_vec_mult"
    /\ PrimReturn(MatVecMult(ctx, loc.A, loc.B))

\* A scalar a method returns, as the result of a call.
One(p) == [c |-> p.c, r |-> <<p.r>>]

\* self._newton_sqrt(x0).
PrimNewtonSqrt ==
    /\ pc = "prim" /\ loc.op = "_newton_sqrt"
    /\ PrimReturn(One(NewtonSqrt(ctx, loc.A)))

\* self._norm(X).
PrimNorm ==
    /\ pc = "prim" /\ loc.op = "_norm"
    /\ PrimReturn(One(Norm(ctx, loc.A)))

\* self._goldschmidt_division(a, b).
PrimDivision ==
    /\ pc = "prim" /\ loc.op = "_goldschmidt_division"
    /\ PrimReturn(One(GoldschmidtDivision(ctx, loc.A, loc.B)))

\* self._vec_mult(V, x).
PrimVecMult ==
    /\ pc = "prim" /\ loc.op = "_vec_mult"
    /\ PrimReturn(VecMult(ctx, loc.A, loc.B))

\* self._vec_cross(V1, V2).
PrimVecCross ==
    /\ pc = "prim" /\ loc.op = "_vec_cross"
    /\ PrimReturn(VecCross(ctx, loc.A, loc.B))

NextPrim ==
    \/ PrimMatrixMult
    \/ PrimMatVecMult
    \/ PrimNewtonSqrt
    \/ PrimNorm
    \/ PrimDivision
    \/ PrimVecMult
    \/ PrimVecCross

SpecPrim == InitPrim /\ [][NextPrim]_vars

\* A call of the method op has ended.
PrimEnded(op) == pc = "prim_done" /\ loc.op = op

\* The first n columns of the matrix M.
FirstColumns(M, n) == [i \in 1..Len(M) |-> SubSeq(M[i], 1, n)]

\* C11 as stated: a matrix product A B where A has not as many columns as
\* B has rows, and a matrix-vector product M v where v has not as many
\* entries as M has columns, end in an error and return no product.
C11_ShapeMismatchRaises ==
    /\ (PrimEnded("_matrix_mult") /\ Len(loc.A[1]) # Len(loc.B)) =>
           out.err # ""
    /\ (PrimEnded("_mat_vec_mult") /\ Len(loc.B) # Len(loc.A[1])) =>
           out.err # ""

\* What the code does when the left operand is the longer one: A of 1 x 2
\* times B of 1 x 1 returns the product of the first column of A and B,
\* and M of 1 x 1 times v of 2 entries the product of M and v's first entry.
C11_Witness ==
    \/ /\ PrimEnded("_matrix_mult")
       /\ Len(loc.A) = 1 /\ Len(loc.A[1]) = 2
       /\ Len(loc.B) = 1 /\ Len(loc.B[1]) = 1
       /\ out.err = ""
       /\ out.result = MatrixMult(NoCtx, FirstColumns(loc.A, 1), loc.B).r
    \/ /\ PrimEnded("_mat_vec_mult")
       /\ Len(loc.A) = 1 /\ Len(loc.A[1]) = 1
       /\ Len(loc.B) = 2
       /\ out.err = ""
       /\ out.result = MatVecMult(NoCtx, loc.A, SubSeq(loc.B, 1, 1)).r

\* Every entry of the vector X is 0.
ZeroVector(X) == \A i \in 1..Len(X) : X[i].v = 0

\* C12 as stated: the square root of 0 is 0 and the norm of an all-zero
\* vector is 0; the call ends without an error, and the client is not
\* asked for the reciprocal of 0.
C12_ZeroRoot ==
    ((PrimEnded("_newton_sqrt") /\ loc.A.v = 0)
        \/ (PrimEnded("_norm") /\ ZeroVector(loc.A))) =>
        /\ out.err = ""
        /\ out.result[1].v = 0

\* What the code does: the first round of _newton_sqrt divides 0 by
\* x0 = 0, the client is asked for 1 / 0 and its ZeroDivisionError ends
\* the call; so does _norm of a vector of two zeros, after its two
\* multiplications.
C12_Witness ==
    /\ PrimEnded("_norm")
    /\ Len(loc.A) = 2 /\ ZeroVector(loc.A)
    /\ out.err = "ZeroDivisionError"
    /\ ctx.seed = 1 /\ ctx.mul = 2

\* C13: every call of _goldschmidt_division(a, b) asks the client once for
\* the reciprocal of b; when the client answers (b is not 0) the call
\* makes one multiplication, of that reciprocal and a, and returns the
\* product: a float when a and b are floats, and otherwise a ciphertext
\* that went through reencrypt_vec once and has the full budget, whatever
\* level a and b had.
C13_DivideOnceRefreshed ==
    PrimEnded("_goldschmidt_division") =>
        /\ ctx.seed = 1
        /\ (out.err = "") = (loc.B.v # 0)
        /\ out.err = "" =>
              /\ ctx.mul = 1
              /\ out.result[1].v = FxMul(FxRecip(loc.B.v), loc.A.v)
              /\ out.result[1].e = (loc.A.e \/ loc.B.e)
              /\ ctx.reenc = (IF loc.A.e \/ loc.B.e THEN 1 ELSE 0)
              /\ out.result[1].e => out.result[1].l = Budget

\* A ciphertext at its last level was divided by a float: the quotient is
\* a ciphertext with the full budget.
C13_Witness ==
    /\ PrimEnded("_goldschmidt_division")
    /\ loc.A.e /\ loc.A.l = 1 /\ ~loc.B.e
    /\ out.err = ""
    /\ out.result[1].e /\ out.result[1].l = Budget
    /\ ctx.reenc = 1

\* A Train call on n >= 1 images has completed.
TrainCompleted ==
    pc = "idle" /\ out.call = "Train" /\ out.err = "" /\ Len(args.N) >= 1

\* The pixels of one image passed to the last Train call.
PixelCount == Len(Flatten(args.N[1]))

\* The model holds k >= 1 eigenfaces of `width` entries each and one
\* projection of k entries for each of the n training images.
ModelShape(width) ==
    /\ Len(server.eigenfaces) >= 1
    /\ \A i \in 1..Len(server.eigenfaces) :
          Len(server.eigenfaces[i]) = width
    /\ Len(server.projected_training_images) = Len(args.N)
    /\ \A i \in 1..Len(server.projected_training_images) :
          Len(server.projected_training_images[i]) = Len(server.eigenfaces)

\* C14 as stated: after Train completes on n >= 1 images of d pixels,
\* with n > d or n <= d, there are k >= 1 eigenfaces of d entries each and
\* n projections of k entries each.
C14_TrainedShapes == TrainCompleted => ModelShape(PixelCount)

\* C14, as the code has it: the eigenfaces have d entries when n > d, and
\* n entries when n <= d, where they are rows of the d x n matrix X.T W.
C14_TrainedShapesAsCoded ==
    TrainCompleted =>
        ModelShape(IF Len(args.N) > PixelCount THEN PixelCount
                   ELSE Len(args.N))

\* Train has completed on three images of four pixels: the eigenfaces
\* have three entries each.
C14_Witness ==
    /\ TrainCompleted
    /\ Len(args.N) = 3 /\ PixelCount = 4
    /\ Len(server.eigenfaces) = 2
    /\ \A i \in 1..2 : Len(server.eigenfaces[i]) = 3

\* ------------------------------------------------- _pow_eig_comb alone

\* The greatest order of the matrices below, and their entries: -1, 0, 1
\* and 2.
MaxOrder == 2

EigenEntries == {0 - Scale, 0, Scale, 2 * Scale}

\* Every symmetric n x n matrix of ciphertexts of those entries, for n from
\* 1 to MaxOrder.
SymmetricMatrices ==
    UNION {{[i \in 1..n |-> [j \in 1..n |-> Enc(M[i][j])]] :
               M \in {A \in [1..n -> [1..n -> EigenEntries]] :
                         \A i \in 1..n : \A j \in 1..n : A[i][j] = A[j][i]}} :
           n \in 1..MaxOrder}

\* _pow_eig_comb is entered with the matrix C (lines 219-225): no
\* eigenpair yet; C0 is the matrix as passed in.
InitEig ==
    /\ server = InitServer
    /\ data = "empty"
    /\ train_norm = <<>>
    /\ train_vec = <<>>
    /\ training_labels = <<>>
    /\ tests = "none"
    /\ pc = "eig_loop"
    /\ \E C \in SymmetricMatrices :
          loc = [n |-> Len(C), C0 |-> C, C |-> C, lambdas |-> <<>>,
                 W |-> <<>>]
    /\ ctx = NoCtx
    /\ out = NoOut
    /\ calls = 0
    /\ args = NoArgs
    /\ seen = {}

\* One pass of `for _ in range(n)`, lines 227-264: the eigenpair is
\* appended and C deflated, or the exception raised ends the call.
EigStepExtract ==
    /\ pc = "eig_loop"
    /\ Len(loc.lambdas) < loc.n
    /\ LET Extracted(x) ==
               /\ ctx' = x.c
               /\ IF Ok(x.c)
                  THEN /\ loc' = [loc EXCEPT !.C = x.C,
                                             !.lambdas = Append(@, x.lam),
                                             !.W = Append(@, x.w)]
                       /\ UNCHANGED <<pc, out>>
                  ELSE /\ pc' = "eig_done"
                       /\ out' = [NoOut EXCEPT !.call = "_pow_eig_comb",
                                                !.err = x.c.err]
                       /\ UNCHANGED loc
       IN  Extracted(ExtractEigenpair(ctx, loc.C))
    /\ UNCHANGED <<server, data, train_norm, train_vec, training_labels,
                   tests, calls, args, seen>>

\* Line 266: return lambdas, W.
EigStepReturn ==
    /\ pc = "eig_loop"
    /\ Len(loc.lambdas) = loc.n
    /\ pc' = "eig_done"
    /\ out' = [NoOut EXCEPT !.call = "_pow_eig_comb",
                             !.result = <<loc.lambdas, loc.W>>]
    /\ UNCHANGED <<server, data, train_norm, train_vec, training_labels,
                   tests, loc, ctx, calls, args, seen>>

NextEig == EigStepExtract \/ EigStepReturn

SpecEig == InitEig /\ [][NextEig]_vars

\* The eigenpair two power iterations from the all-ones vector give on the
\* matrix C, each statement of lines 233-256 written out once.
TwoIterationsFromOnes(C) ==
    LET ones == [i \in 1..Len(C) |-> Plain(Scale)]
        w0 == GoldschmidtVectorDivision(NoCtx, ones, Norm(NoCtx, ones).r).r
        x1 == MatVecMult(NoCtx, C, w0).r
        w1 == GoldschmidtVectorDivision(NoCtx, x1, Norm(NoCtx, x1).r).r
        x2 == MatVecMult(NoCtx, C, w1).r
        l2 == Norm(NoCtx, x2).r
        w2 == GoldschmidtVectorDivision(NoCtx, x2, l2).r
        dv == GoldschmidtDivision(NoCtx, w2[1], w1[1]).r
    IN  [lam |-> Mul(NoCtx, dv, l2).r,
         w |-> ReencryptVec(NoCtx, VecMult(NoCtx, w2, dv).r).r]

\* The numbers of the matrix C less lam times the outer product of w with
\* itself.
DeflatedBy(C, lam, w) ==
    [i \in 1..Len(C) |-> [j \in 1..Len(C) |->
        C[i][j].v + FxMul(FxMul(w[i].v, 0 - lam.v), w[j].v)]]

\* The numbers of a matrix of values.
Numbers(M) == [i \in 1..Len(M) |-> [j \in 1..Len(M[i]) |-> M[i][j].v]]

\* What the reciprocal oracle is asked in one pass on a matrix of order n:
\* the NewtonIterations divisions of each of three norms, the n divisions
\* of each of three vectors, and the division of line 251.
SeedsPerPass(n) == 3 * (NewtonIterations + n) + 1

\* C15: _pow_eig_comb on an n x n matrix returns n eigenvalues and n
\* eigenvectors, in the order extracted.  Every pass that completes appends
\* one pair behind those extracted before and leaves them as they are; the
\* pair is the one two power iterations from the all-ones vector give on
\* the matrix as the passes before left it; and before the next pass starts
\* that matrix has had lambda times the outer product of the eigenvector
\* with itself subtracted.
C15_SequentialDeflation ==
    /\ [](pc = "eig_done" /\ out.err = "" =>
             /\ Len(out.result[1]) = loc.n
             /\ Len(out.result[2]) = loc.n
             /\ out.result = <<loc.lambdas, loc.W>>
             /\ out.result = <<PowEigComb(NoCtx, loc.C0).lambdas,
                                PowEigComb(NoCtx, loc.C0).W>>
             /\ ctx.seed = loc.n * SeedsPerPass(loc.n))
    /\ [][pc = "eig_loop" /\ pc' = "eig_loop" =>
             LET i == Len(loc.lambdas)
                 pair == TwoIterationsFromOnes(loc.C)
             IN  /\ i < loc.n
                 /\ loc'.lambdas = Append(loc.lambdas, pair.lam)
                 /\ loc'.W = Append(loc.W, pair.w)
                 /\ Len(pair.w) = loc.n
                 /\ Numbers(loc'.C) = DeflatedBy(loc.C, pair.lam, pair.w)
                 /\ ctx'.seed = ctx.seed + SeedsPerPass(loc.n)]_vars

\* Two eigenpairs of a 2 x 2 matrix have been returned, and the matrix the
\* second pass worked on was not the one passed in.
C15_Witness ==
    /\ pc = "eig_done" /\ out.err = ""
    /\ loc.n = 2
    /\ Len(out.result[1]) = 2
    /\ out.result[1][1].v # 0
    /\ out.result[1][2].v # 0

\* ------------------------------------------------- one reencryption

\* The multiplications a call of a multiply-heavy method makes: one for
\* every term of every entry of its result.
PrimMuls ==
    CASE loc.op = "_matrix_mult" -> Len(loc.A) * Len(loc.B[1]) * Len(loc.B)
      [] loc.op = "_mat_vec_mult" -> Len(loc.A) * Len(loc.A[1])
      [] loc.op = "_vec_mult" -> Len(loc.A)
      [] loc.op = "_vec_cross" -> Len(loc.A) * Len(loc.A)
      [] OTHER -> 0

\* The entries of the vector or matrix the call has returned.
ReturnedEntries ==
    IF loc.op \in {"_matrix_mult", "_vec_cross"} THEN Flatten(out.result)
    ELSE out.result

\* A call of a multiply-heavy method has returned.
HeavyReturned ==
    /\ pc = "prim_done"
    /\ loc.op \in {"_matrix_mult", "_mat_vec_mult", "_vec_mult", "_vec_cross"}
    /\ out.err = ""

\* C17: a call of _matrix_mult, _mat_vec_mult, _vec_mult or _vec_cross that
\* returns has asked for reencryption exactly once, after the last of its
\* multiplications and on every entry of its result, and every entry it
\* returns is a ciphertext with the whole budget of levels, whatever the
\* dimensions and the levels of its operands.
C17_RefreshedOnce ==
    HeavyReturned =>
        /\ ctx.reenc = 1
        /\ ctx.mul = PrimMuls
        /\ ctx.rmul = ctx.mul
        /\ ctx.dec = Len(ReturnedEntries)
        /\ ctx.decIn \subseteq {"_reencrypt_vec", "_reencrypt_mat"}
        /\ \A i \in 1..Len(ReturnedEntries) :
               /\ ReturnedEntries[i].e
               /\ ReturnedEntries[i].l = Budget

\* A 3 x 3 outer product of vectors at their last levels has come back
\* with nine fresh entries after nine multiplications.
C17_Witness ==
    /\ HeavyReturned
    /\ loc.op = "_vec_cross"
    /\ loc.A[1].l = 1
    /\ ctx.mul = 9
    /\ Len(out.result) = 3
    /\ ctx.dec = 9
    /\ ctx.minl < Budget

\* ------------------------------------------------- termination

\* The statements a running call still has to execute before it is back
\* at the caller, when none of them raises: Train has four, Classify has
\* lines 70 and 72-74, one round of its loop for each query and line 86.
StepsLeft ==
    CASE pc = "train_mean_face" -> 4
      [] pc = "train_eigenfaces" -> 3
      [] pc = "train_projections" -> 2
      [] pc = "train_flag" -> 1
      [] pc = "classify_project" -> Len(TestLevels(tests)) + 3
      [] pc = "classify_count" -> Len(loc.q) + 2
      [] pc = "classify_loop" -> (Len(loc.q) - loc.i) + 1
      [] OTHER -> 0

\* The multiplications of one _newton_sqrt: in each round those of the
\* division and the one by 0.5.
SqrtMuls == NewtonIterations * (GoldschmidtIterations + 1)

\* The multiplications of _norm on a vector of n entries.
NormMuls(n) == n + SqrtMuls

\* The multiplications of one pass of _pow_eig_comb on a matrix of order
\* n: the start vector, the power iterations, lines 251-256 and the
\* deflation.
MulsPerPass(n) ==
    (NormMuls(n) + n * GoldschmidtIterations)
    + PowerIterations * (n * n + NormMuls(n) + n * GoldschmidtIterations)
    + (GoldschmidtIterations + 1 + n)
    + (1 + n + n * n)

\* What a Train call that returns asks the reciprocal oracle, for n images
\* of d pixels: once for the mean, in every pass of _pow_eig_comb, and
\* with n <= d in the normalisation of n columns of d entries.
TrainSeeds(n, d) ==
    1 + (IF n > d THEN d * SeedsPerPass(d)
         ELSE n * SeedsPerPass(n) + n * (NewtonIterations + d))

\* The multiplications of a Train call that returns with k eigenfaces of
\* w entries.
TrainMuls(n, d, k, w) ==
    (GoldschmidtIterations + d)
    + d
    + (IF n > d THEN d * d * n + d * MulsPerPass(d)
       ELSE n * n * d + n * MulsPerPass(n) + d * n * n
            + n * (NormMuls(d) + d * GoldschmidtIterations))
    + (d + n * k * w)

\* What a Classify call that returns asks the reciprocal oracle, for q
\* queries and m stored projections: NewtonIterations divisions for each
\* distance.
ClassifySeeds(q, m) == q * m * NewtonIterations

\* The multiplications of a Classify call that returns, for q queries, a
\* mean face of d entries, k eigenfaces of w entries and m projections.
ClassifyMuls(q, d, k, w, m) ==
    d + q * k * w + q * m * (k + k + SqrtMuls)

\* len(M[0]) of a matrix with rows, and 0 of one without.
Columns(M) == IF Len(M) = 0 THEN 0 ELSE Len(M[1])

\* C16: every Train and Classify call ends (it returns or raises): a
\* running call always has a statement to execute, and every statement it
\* executes leaves it fewer statements to go, the loop of Classify having
\* as many rounds as there are queries. The work of a call that returns is
\* fixed by the iteration counts 30, 2 and 1 and by the dimensions of its
\* arguments and of the model alone: the number of times the reciprocal
\* oracle is asked and the number of multiplications are the same whatever
\* the pixel values.
C16_FixedIterations ==
    /\ [](pc # "idle" => StepsLeft > 0)
    /\ [][pc # "idle" => StepsLeft' < StepsLeft]_vars
    /\ [](pc = "idle" /\ out.call = "Train" /\ out.err = "" =>
             /\ ctx.seed = TrainSeeds(Len(args.X), Columns(args.X))
             /\ ctx.mul = TrainMuls(Len(args.X), Columns(args.X),
                                    Len(server.eigenfaces),
                                    Columns(server.eigenfaces)))
    /\ [](ClassifyReturned =>
             /\ ctx.seed = ClassifySeeds(Len(out.result),
                                         Len(server.projected_training_images))
             /\ ctx.mul = ClassifyMuls(Len(out.result),
                                       Len(server.mean_face),
                                       Len(server.eigenfaces),
                                       Columns(server.eigenfaces),
                                       Len(server.projected_training_images)))

\* A Classify call of two queries against three stored projections has
\* returned after 6 square roots of 30 rounds each.
C16_Witness ==
    /\ ClassifyReturned
    /\ Len(out.result) = 2
    /\ Len(server.projected_training_images) = 3
    /\ ctx.seed = 6 * NewtonIterations

\* ------------------------------------------------- the arguments of Train

\* A Train call has returned, and no call was made since.
TrainReturned == pc = "idle" /\ out.call = "Train" /\ out.err = ""

\* C18: when Train has returned, the caller's arrays, train_norm and
\* train_vec, hold what they held when they were passed.
C18_TrainLeavesArguments ==
    TrainReturned => train_norm = args.N /\ train_vec = args.X

\* What the code does: Train has returned, the caller's normalized images
\* are as passed, and every entry of the caller's vectorized images is now
\* the one passed minus the mean face's (_pca, line 159, adds in place), a
\* ciphertext with a level used up.
C18_Witness ==
    /\ TrainReturned
    /\ train_norm = args.N
    /\ train_vec # args.X
    /\ \A i \in 1..Len(args.X) : \A j \in 1..Len(args.X[i]) :
           /\ train_vec[i][j].v = args.X[i][j].v - server.mean_face[j].v
           /\ train_vec[i][j].l < args.X[i][j].l
    /\ \E j \in 1..Len(server.mean_face) : server.mean_face[j].v # 0

\* ------------------------------------------------- the trained flag

\* The three attributes of the model were assigned by the Train call
\* number k, and that call returned.
ModelOfCall(k) ==
    /\ k \in args.done
    /\ args.wrote.mean_face = k
    /\ args.wrote.eigenfaces = k
    /\ args.wrote.projected_training_images = k

\* C19: whenever no call is running and is_trained is true, after a Train
\* call that raised too, mean_face, eigenfaces and
\* projected_training_images were all assigned by one and the same Train
\* call, and that call returned.
C19_TrainedModelOfOneCall ==
    (pc = "idle" /\ server.is_trained) =>
        \E k \in 1..MaxCalls : ModelOfCall(k)

\* What the code does: a Train call has returned, a later Train call has
\* assigned mean_face and eigenfaces and then raised, the projections are
\* still those of the earlier call, and is_trained, which Train only ever
\* sets (line 58), is true.
C19_Witness ==
    /\ pc = "idle" /\ out.call = "Train" /\ out.err # ""
    /\ server.is_trained
    /\ args.wrote.mean_face = calls
    /\ args.wrote.eigenfaces = calls
    /\ args.wrote.projected_training_images < calls
    /\ args.wrote.projected_training_images \in args.done
    /\ calls \notin args.done
    /\ Len(server.projected_training_images) > 0
    /\ Len(server.eigenfaces) = 0

====
